---- MODULE Spec2Model ----
(***************************************************************************)
(* A model of shogo82148/a1notation: the A1Notation range object (its      *)
(* constructor, parse and toString), the recursive-descent Parser with     *)
(* its cursor, the cell-name decoder, the bijective base-26 column codec   *)
(* and the sheet-name escaper.                                             *)
(*                                                                         *)
(* The module modelled is the revision whose constructor takes             *)
(* (sheetName, left, top, right, bottom), the one the constructor and      *)
(* toString tests call.  The file mod.ts holds an earlier revision of the  *)
(* same class: the same Parser methods and codec, a constructor taking     *)
(* (sheetName, top, bottom, left, right), and a quoted branch that leaves  *)
(* cell2 unset for a single cell.                                          *)
(*                                                                         *)
(* A JavaScript string is a sequence of one-character strings.  An         *)
(* optional value (`undefined` or a value) is a sequence of length at most *)
(* one: None is undefined, Some(x) is the value x.                         *)
(***************************************************************************)
EXTENDS Integers, Sequences, FiniteSets, TLC

VARIABLES
    buf,      \* Parser.buf: the code points of the input
    index,    \* Parser.index: the cursor
    pc,       \* where the current call stands
    ret,      \* where parseName returns to
    name,     \* the local `name` of parseQuotedName / parseName
    res,      \* the InterimResult being built: sheetName, cell1, cell2
    a1,       \* the A1Notation object that was constructed, if any
    err,      \* the message of the Error that was thrown, if any
    out,      \* the string toString returned, if any
    round,    \* 1: the first parse; 2: the parse of the formatted text
    first,    \* the A1Notation the first parse returned
    args,     \* the arguments given to the constructor
    num,      \* the column number given to toBase26
    enc,      \* the string toBase26 returned
    dec       \* the number fromBase26 returned for enc

vars == <<buf, index, pc, ret, name, res, a1, err, out, round, first, args, num, enc, dec>>

-----------------------------------------------------------------------------
(* Bounds of the model. *)

\* the longest input text given to parse
MaxLen == 5
\* how many iterations past the end of the input the model follows a loop
MaxOverrun == 2
\* the small numbers given to the constructor are 0..MaxNum
MaxNum == 3

-----------------------------------------------------------------------------
(* Optional values and characters. *)

None == <<>>
Some(x) == <<x>>

UpperLetters == <<"A","B","C","D","E","F","G","H","I","J","K","L","M",
                  "N","O","P","Q","R","S","T","U","V","W","X","Y","Z">>
LowerLetters == <<"a","b","c","d","e","f","g","h","i","j","k","l","m",
                  "n","o","p","q","r","s","t","u","v","w","x","y","z">>
DigitChars == <<"0","1","2","3","4","5","6","7","8","9">>

Elems(seq) == {seq[i] : i \in 1..Len(seq)}
IndexOf(seq, x) == CHOOSE i \in 1..Len(seq) : seq[i] = x

Upper == Elems(UpperLetters)
Lower == Elems(LowerLetters)
Letters == Upper \cup Lower
Digits == Elems(DigitChars)
Alnum == Letters \cup Digits

charCodeA == 65
charCodeZ == 90
charCode_a == 97
charCode_z == 122

\* ch.codePointAt(0) for the characters the model uses
codePointAt(ch) ==
    IF ch \in Upper THEN charCodeA + IndexOf(UpperLetters, ch) - 1
    ELSE IF ch \in Lower THEN charCode_a + IndexOf(LowerLetters, ch) - 1
    ELSE IF ch \in Digits THEN 48 + IndexOf(DigitChars, ch) - 1
    ELSE IF ch = " " THEN 32
    ELSE IF ch = "!" THEN 33
    ELSE IF ch = "'" THEN 39
    ELSE IF ch = ":" THEN 58
    ELSE 63

\* String.fromCharCode(code) for the codes toBase26 produces
fromCharCode(code) == UpperLetters[code - charCodeA + 1]

AllIn(s, set) == \A i \in 1..Len(s) : s[i] \in set

Min(a, b) == IF a < b THEN a ELSE b

-----------------------------------------------------------------------------
(* The regular expressions. *)

\* the k leading letters (at most 3) and the digits after them, for the pattern
\* ^([a-z]{0,3})([0-9]+)$ with /i (minDigits = 1) or ^([a-z]{0,3})([0-9]*)$ (0)
CellSplits(s, minDigits) ==
    {k \in 0..Min(3, Len(s)) :
        /\ AllIn(SubSeq(s, 1, k), Letters)
        /\ AllIn(SubSeq(s, k + 1, Len(s)), Digits)
        /\ Len(s) - k >= minDigits}

\* reCell with `[0-9]*`: a run of letters alone passes for a cell
reCell_digitsOptional(s) == CellSplits(s, 0) # {}

\* reCell.test(s)
reCell(s) == CellSplits(s, 1) # {}

\* /^[a-z0-9]+$/i.test(s)
reAlnumOnly(s) == Len(s) >= 1 /\ AllIn(s, Alnum)

-----------------------------------------------------------------------------
(* The column codec. *)

RECURSIVE fromBase26Loop(_, _)
fromBase26Loop(s, n) ==
    IF s = <<>> THEN n
    ELSE LET code == codePointAt(Head(s))
         IN IF charCodeA <= code /\ code <= charCodeZ
            THEN fromBase26Loop(Tail(s), n * 26 + code - charCodeA + 1)
            ELSE IF charCode_a <= code /\ code <= charCode_z
            THEN fromBase26Loop(Tail(s), n * 26 + code - charCode_a + 1)
            ELSE -1  \* throw new Error(`invalid character: ${ch}`)

\* fromBase26 whose lowercase branch subtracts charCodeA
RECURSIVE fromBase26_upperBaseLoop(_, _)
fromBase26_upperBaseLoop(s, n) ==
    IF s = <<>> THEN n
    ELSE LET code == codePointAt(Head(s))
         IN IF (charCodeA <= code /\ code <= charCodeZ) \/ (charCode_a <= code /\ code <= charCode_z)
            THEN fromBase26_upperBaseLoop(Tail(s), n * 26 + code - charCodeA + 1)
            ELSE -1

fromBase26_upperBase(s) == fromBase26_upperBaseLoop(s, 0)

fromBase26(s) == fromBase26Loop(s, 0)

RECURSIVE toBase26Loop(_, _)
toBase26Loop(n, s) ==
    IF n > 0
    THEN LET m == n - 1
         IN toBase26Loop(m \div 26, <<fromCharCode(charCodeA + (m % 26))>> \o s)
    ELSE s

\* toBase26 without `n--`: plain base 26, whose digit 0 is "A"
RECURSIVE toBase26_noDecrementLoop(_, _)
toBase26_noDecrementLoop(n, s) ==
    IF n > 0
    THEN toBase26_noDecrementLoop(n \div 26, <<fromCharCode(charCodeA + (n % 26))>> \o s)
    ELSE s

toBase26_noDecrement(n) == toBase26_noDecrementLoop(n, <<>>)

toBase26(n) == toBase26Loop(n, <<>>)

\* Number.prototype.toString() of a non-negative integer below 1e21, which
\* prints in plain decimal
RECURSIVE numberToString(_)
numberToString(n) ==
    IF n < 10 THEN <<DigitChars[n + 1]>>
    ELSE numberToString(n \div 10) \o <<DigitChars[(n % 10) + 1]>>

\* parseInt(s, 10) of a string of decimal digits (the rows of the model are
\* far below 2^53, where a double is exact)
RECURSIVE parseInt(_)
parseInt(s) ==
    IF Len(s) = 0 THEN 0
    ELSE parseInt(SubSeq(s, 1, Len(s) - 1)) * 10 + (IndexOf(DigitChars, s[Len(s)]) - 1)

-----------------------------------------------------------------------------
(* The A1Notation object. *)

Truthy(opt) == opt # None /\ opt[1] # 0
NonEmpty(opt) == opt # None /\ opt[1] # <<>>

\* the constructor defaulting each of right and bottom on its own
A1Notation_eachDefaulted(sheetName, left, top, right, bottom) ==
    [sheetName |-> sheetName, left |-> left, top |-> top,
     right |-> IF right = None THEN left ELSE right,
     bottom |-> IF bottom = None THEN top ELSE bottom]

\* new A1Notation(sheetName, left, top, right, bottom): the constructor has no
\* throw statement, so it returns an object for every argument list
A1Notation(sheetName, left, top, right, bottom) ==
    IF right = None /\ bottom = None
    THEN [sheetName |-> sheetName, left |-> left, top |-> top,
          right |-> left, bottom |-> top]
    ELSE [sheetName |-> sheetName, left |-> left, top |-> top,
          right |-> right, bottom |-> bottom]

\* the function parseCell(s): [ok |-> FALSE] is the thrown `invalid cell name`
parseCell(s) ==
    LET m == CellSplits(s, 0)
    IN IF m = {} THEN [ok |-> FALSE, col |-> None, row |-> None]
       ELSE LET k == CHOOSE x \in m : TRUE
                m1 == SubSeq(s, 1, k)
                m2 == SubSeq(s, k + 1, Len(s))
            IN [ok |-> TRUE,
                col |-> IF m1 # <<>> THEN Some(fromBase26(m1)) ELSE None,
                row |-> IF m2 # <<>> THEN Some(parseInt(m2)) ELSE None]

\* s.replace(/'/g, "''") replacing nothing
doubleQuotes_none(s) == s

\* s.replace(/'/g, "''")
RECURSIVE doubleQuotes(_)
doubleQuotes(s) ==
    IF s = <<>> THEN <<>>
    ELSE (IF Head(s) = "'" THEN <<"'", "'">> ELSE <<Head(s)>>) \o doubleQuotes(Tail(s))

\* escapeSheetName without the reCell test
escapeSheetName_noCellTest(s) ==
    IF reAlnumOnly(s) THEN s
    ELSE <<"'">> \o doubleQuotes(s) \o <<"'">>

escapeSheetName(s) ==
    IF reCell(s) THEN <<"'">> \o s \o <<"'">>
    ELSE IF reAlnumOnly(s) THEN s
    ELSE <<"'">> \o doubleQuotes(s) \o <<"'">>

\* toString without the single-cell case
toString_alwaysRange(this) ==
    LET cell1 == (IF Truthy(this.left) THEN toBase26(this.left[1]) ELSE <<>>)
                 \o (IF Truthy(this.top) THEN numberToString(this.top[1]) ELSE <<>>)
        cell2 == (IF Truthy(this.right) THEN toBase26(this.right[1]) ELSE <<>>)
                 \o (IF Truthy(this.bottom) THEN numberToString(this.bottom[1]) ELSE <<>>)
        cell == IF Truthy(this.left) /\ Truthy(this.right)
                   /\ Truthy(this.top) /\ Truthy(this.bottom)
                THEN IF this.left = this.right /\ this.top = this.bottom
                     THEN cell1 \o <<":">> \o cell2
                     ELSE cell1 \o <<":">> \o cell2
                ELSE IF cell1 # <<>> /\ cell2 # <<>>
                THEN cell1 \o <<":">> \o cell2
                ELSE cell1
    IN IF NonEmpty(this.sheetName)
       THEN IF cell # <<>>
            THEN escapeSheetName(this.sheetName[1]) \o <<"!">> \o cell
            ELSE escapeSheetName(this.sheetName[1])
       ELSE cell

\* toString without `else if (cell1 && cell2)`
toString_noPartialRange(this) ==
    LET cell1 == (IF Truthy(this.left) THEN toBase26(this.left[1]) ELSE <<>>)
                 \o (IF Truthy(this.top) THEN numberToString(this.top[1]) ELSE <<>>)
        cell2 == (IF Truthy(this.right) THEN toBase26(this.right[1]) ELSE <<>>)
                 \o (IF Truthy(this.bottom) THEN numberToString(this.bottom[1]) ELSE <<>>)
        cell == IF Truthy(this.left) /\ Truthy(this.right)
                   /\ Truthy(this.top) /\ Truthy(this.bottom)
                THEN IF this.left = this.right /\ this.top = this.bottom
                     THEN cell1
                     ELSE cell1 \o <<":">> \o cell2
                ELSE cell1
    IN IF NonEmpty(this.sheetName)
       THEN IF cell # <<>>
            THEN escapeSheetName(this.sheetName[1]) \o <<"!">> \o cell
            ELSE escapeSheetName(this.sheetName[1])
       ELSE cell

toString(this) ==
    LET cell1 == (IF Truthy(this.left) THEN toBase26(this.left[1]) ELSE <<>>)
                 \o (IF Truthy(this.top) THEN numberToString(this.top[1]) ELSE <<>>)
        cell2 == (IF Truthy(this.right) THEN toBase26(this.right[1]) ELSE <<>>)
                 \o (IF Truthy(this.bottom) THEN numberToString(this.bottom[1]) ELSE <<>>)
        cell == IF Truthy(this.left) /\ Truthy(this.right)
                   /\ Truthy(this.top) /\ Truthy(this.bottom)
                THEN IF this.left = this.right /\ this.top = this.bottom
                     THEN cell1
                     ELSE cell1 \o <<":">> \o cell2
                ELSE IF cell1 # <<>> /\ cell2 # <<>>
                THEN cell1 \o <<":">> \o cell2
                ELSE cell1
    IN IF NonEmpty(this.sheetName)
       THEN IF cell # <<>>
            THEN escapeSheetName(this.sheetName[1]) \o <<"!">> \o cell
            ELSE escapeSheetName(this.sheetName[1])
       ELSE cell

-----------------------------------------------------------------------------
(* The Parser: one action for each step of its methods. *)

EOF == "EOF"

NoError == ""

EmptyResult == [sheetName |-> None, cell1 |-> None, cell2 |-> None]

\* Parser.peek(): it reads and changes nothing
peek(b, i) == IF i < Len(b) THEN b[i + 1] ELSE EOF

\* /[a-z0-9]/i.test(ch): the pattern is not anchored, and the sentinel "EOF"
\* holds letters
testAlnumI(ch) == ch = EOF \/ ch \in Alnum

\* /[a-zA-Z0-9]/.test(ch), read only when ch is not the sentinel
testAlnum(ch) == ch \in Alnum

\* the characters `name += ch` appends
Appended(ch) == IF ch = EOF THEN <<"E", "O", "F">> ELSE <<ch>>

objVars == <<a1, out, round, first>>
codecVars == <<num, enc, dec>>

Throw(msg) ==
    /\ pc' = "thrown"
    /\ err' = msg

\* Parser.parse(): the dispatch on the first character
Parser_parse ==
    /\ pc = "parse"
    /\ LET ch == peek(buf, index)
       IN IF ch = "'"
          THEN /\ pc' = "parseQuotedName"
               /\ UNCHANGED <<ret, err>>
          ELSE IF testAlnumI(ch)
          THEN /\ pc' = "parseName"
               /\ ret' = "parseCell"
               /\ UNCHANGED err
          ELSE /\ Throw("unexpected character")
               /\ UNCHANGED ret
    /\ name' = <<>>
    /\ UNCHANGED <<buf, index, res, objVars, args, codecVars>>

\* parseQuotedName(), up to its loop: the opening quote
parseQuotedName_open ==
    /\ pc = "parseQuotedName"
    /\ IF peek(buf, index) # "'"
       THEN /\ Throw("unexpected character")
            /\ UNCHANGED index
       ELSE /\ index' = index + 1
            /\ pc' = "quotedLoop"
            /\ UNCHANGED err
    /\ name' = <<>>
    /\ UNCHANGED <<buf, ret, res, objVars, args, codecVars>>

\* parseQuotedName(): one iteration of `for (;;)`, and what follows the break
parseQuotedName_loop ==
    /\ pc = "quotedLoop"
    /\ index < Len(buf) + MaxOverrun
    /\ LET ch == peek(buf, index)
       IN IF ch = "'" /\ peek(buf, index + 1) # "'"
          THEN \* this.next(); break;
               /\ index' = index + 1
               /\ IF name = <<>>
                  THEN /\ Throw("invalid sheet name")
                       /\ UNCHANGED res
                  ELSE /\ res' = [res EXCEPT !.sheetName = Some(name)]
                       /\ pc' = "afterQuotedName"
                       /\ UNCHANGED err
               /\ UNCHANGED name
          ELSE \* name += ch; this.next(); after one more next() for a doubled quote
               /\ index' = IF ch = "'" THEN index + 2 ELSE index + 1
               /\ name' = name \o Appended(ch)
               /\ UNCHANGED <<pc, err, res>>
    /\ UNCHANGED <<buf, ret, objVars, args, codecVars>>

\* parseName(): one iteration of `for (;;)`, and what follows the break
parseName_loop ==
    /\ pc = "parseName"
    /\ LET ch == peek(buf, index)
       IN IF ch = EOF \/ ~testAlnum(ch)
          THEN /\ IF name = <<>>
                  THEN Throw("invalid cell name")
                  ELSE pc' = ret /\ UNCHANGED err
               /\ UNCHANGED <<name, index>>
          ELSE /\ name' = name \o <<ch>>
               /\ index' = index + 1
               /\ UNCHANGED <<pc, err>>
    /\ UNCHANGED <<buf, ret, res, objVars, args, codecVars>>

\* a call of parseName() from the place `from`, returning to `to`
CallParseName(to) ==
    /\ pc' = "parseName"
    /\ ret' = to
    /\ name' = <<>>

\* parseSheetNameAndCell(), after parseQuotedName() returned
parseSheetNameAndCell_sheet ==
    /\ pc = "afterQuotedName"
    /\ IF peek(buf, index) = EOF
       THEN /\ pc' = "parsed"
            /\ UNCHANGED <<index, ret, name, err>>
       ELSE IF peek(buf, index) # "!"
       THEN /\ Throw("expected !")
            /\ UNCHANGED <<index, ret, name>>
       ELSE /\ index' = index + 1
            /\ CallParseName("quotedCell1")
            /\ UNCHANGED err
    /\ UNCHANGED <<buf, res, objVars, args, codecVars>>

\* parseSheetNameAndCell() without its end-of-input case after cell1: a ":"
\* is required
parseSheetNameAndCell_cell1_colonRequired ==
    /\ pc = "quotedCell1"
    /\ IF peek(buf, index) # ":"
       THEN /\ Throw("expected :")
            /\ UNCHANGED <<index, ret, name, res>>
       ELSE /\ res' = [res EXCEPT !.cell1 = Some(name)]
            /\ index' = index + 1
            /\ CallParseName("quotedCell2")
            /\ UNCHANGED err
    /\ UNCHANGED <<buf, objVars, args, codecVars>>

\* parseSheetNameAndCell(), after parseName() returned cell1
parseSheetNameAndCell_cell1 ==
    /\ pc = "quotedCell1"
    /\ IF peek(buf, index) = EOF
       THEN /\ res' = [res EXCEPT !.cell1 = Some(name), !.cell2 = Some(name)]
            /\ pc' = "parsed"
            /\ UNCHANGED <<index, ret, name, err>>
       ELSE IF peek(buf, index) # ":"
       THEN /\ Throw("expected :")
            /\ UNCHANGED <<index, ret, name, res>>
       ELSE /\ res' = [res EXCEPT !.cell1 = Some(name)]
            /\ index' = index + 1
            /\ CallParseName("quotedCell2")
            /\ UNCHANGED err
    /\ UNCHANGED <<buf, objVars, args, codecVars>>

\* after parseName() returned cell2: `if (this.peek() !== EOF) throw`, return
LastCell(at) ==
    /\ pc = at
    /\ IF peek(buf, index) # EOF
       THEN /\ Throw("expected EOF")
            /\ UNCHANGED res
       ELSE /\ res' = [res EXCEPT !.cell2 = Some(name)]
            /\ pc' = "parsed"
            /\ UNCHANGED err
    /\ UNCHANGED <<buf, index, ret, name, objVars, args, codecVars>>

\* parseSheetNameAndCell(), after parseName() returned cell2
parseSheetNameAndCell_cell2 == LastCell("quotedCell2")

\* Parser.parseCell(), after parseName() returned name
Parser_parseCell_name ==
    /\ pc = "parseCell"
    /\ LET ch == peek(buf, index)
       IN IF ch = EOF
          THEN /\ res' = IF reCell(name)
                         THEN [res EXCEPT !.cell1 = Some(name), !.cell2 = Some(name)]
                         ELSE [res EXCEPT !.sheetName = Some(name)]
               /\ pc' = "parsed"
               /\ UNCHANGED <<index, ret, name, err>>
          ELSE IF ch = "!"
          THEN /\ index' = index + 1
               /\ res' = [res EXCEPT !.sheetName = Some(name)]
               /\ CallParseName("sheetCell1")
               /\ UNCHANGED err
          ELSE IF ch = ":"
          THEN /\ index' = index + 1
               /\ res' = [res EXCEPT !.cell1 = Some(name)]
               /\ CallParseName("rangeCell2")
               /\ UNCHANGED err
          ELSE /\ Throw("expected ! or :")
               /\ UNCHANGED <<index, ret, name, res>>
    /\ UNCHANGED <<buf, objVars, args, codecVars>>

\* Parser.parseCell(), after `name!` and parseName() returned cell1
Parser_parseCell_cell1 ==
    /\ pc = "sheetCell1"
    /\ LET ch == peek(buf, index)
       IN IF ch = EOF
          THEN /\ res' = [res EXCEPT !.cell1 = Some(name), !.cell2 = Some(name)]
               /\ pc' = "parsed"
               /\ UNCHANGED <<index, ret, name, err>>
          ELSE IF ch = ":"
          THEN /\ res' = [res EXCEPT !.cell1 = Some(name)]
               /\ index' = index + 1
               /\ CallParseName("sheetCell2")
               /\ UNCHANGED err
          ELSE /\ Throw("unexpected character")
               /\ UNCHANGED <<index, ret, name, res>>
    /\ UNCHANGED <<buf, objVars, args, codecVars>>

\* Parser.parseCell(), after `name!cell1:` and parseName() returned cell2
Parser_parseCell_cell2 == LastCell("sheetCell2")

\* Parser.parseCell(), after `name:` and parseName() returned cell2
Parser_parseCell_range == LastCell("rangeCell2")

\* A1Notation.parse(s), after parser.parse() returned: the cells are decoded
\* and the object is constructed
A1Notation_parse ==
    /\ pc = "parsed"
    /\ LET c1 == IF NonEmpty(res.cell1) THEN parseCell(res.cell1[1])
                 ELSE [ok |-> TRUE, col |-> None, row |-> None]
           c2 == IF NonEmpty(res.cell2) THEN parseCell(res.cell2[1])
                 ELSE [ok |-> TRUE, col |-> None, row |-> None]
       IN IF ~c1.ok \/ ~c2.ok
          THEN /\ Throw("invalid cell name")
               /\ UNCHANGED a1
          ELSE /\ a1' = Some(A1Notation(res.sheetName, c1.col, c1.row, c2.col, c2.row))
               /\ pc' = "returned"
               /\ UNCHANGED err
    /\ UNCHANGED <<buf, index, ret, name, res, out, round, first, args, codecVars>>

\* `${a1}` of the object that was returned or constructed
Format ==
    /\ pc = "returned"
    /\ out' = Some(toString(a1[1]))
    /\ pc' = "formatted"
    /\ UNCHANGED <<buf, index, ret, name, res, a1, err, round, first, args, codecVars>>

\* A1Notation.parse(a1.toString()): a second Parser on the formatted text
Reparse ==
    /\ pc = "formatted"
    /\ round = 1
    /\ round' = 2
    /\ first' = a1
    /\ buf' = out[1]
    /\ index' = 0
    /\ pc' = "parse"
    /\ name' = <<>>
    /\ res' = EmptyResult
    /\ a1' = None
    /\ UNCHANGED <<ret, err, out, args, codecVars>>

-----------------------------------------------------------------------------
(* The inputs of parse. *)

InputChars == {"A", "b", "0", "1", "'", "!", ":", "?"}

ShortInputs == UNION {[1..k -> InputChars] : k \in 0..MaxLen}

\* the inputs of the parse tests that parse accepts
AcceptedTestInputs ==
    {<<"S","h","e","e","t","1","!","A","1",":","B","2">>,
     <<"S","h","e","e","t","1","!","A",":","A">>,
     <<"S","h","e","e","t","1","!","1",":","2">>,
     <<"S","h","e","e","t","1","!","A","5",":","A">>,
     <<"'","M","y"," ","C","u","s","t","o","m"," ","S","h","e","e","t","'","!","A",":","A">>,
     <<"'","M","y"," ","C","u","s","t","o","m"," ","S","h","e","e","t","'">>,
     <<"Z","Z","Z","1">>,
     <<"'","S","h","e","e","t","1","'","!","A","1">>,
     <<"S","h","e","e","t","1","!","a","1",":","b","2">>}

\* the inputs of the parse tests that parse must reject
InvalidTestInputs ==
    {<<"S","h","e","e","t","1","!">>,
     <<"S","h","e","e","t","1","!","A","1",":">>,
     <<"!","A","1",":","B","2">>,
     <<"'","'","!","A","1",":","B","2">>,
     <<"A","1",":","B","2",":","C","3">>,
     <<"S","h","e","e","t","1","!","A","1",":","B","2",":","C","3">>,
     <<"'","S","h","e","e","t","1","'","!","A","1",":","B","2",":","C","3">>,
     <<"A","A","A","A","1",":","Z","Z","Z","1">>,
     <<"S","h","e","e","t","1","?">>,
     <<"'","S","h","e","e","t","1","'","?">>,
     <<"S","h","e","e","t","1","!","A","1","?","B","2">>,
     <<"'","S","h","e","e","t","1","'","!","A","1","?","B","2">>}

Inputs == ShortInputs \cup AcceptedTestInputs \cup InvalidTestInputs

InitParse ==
    /\ buf \in Inputs
    /\ index = 0
    /\ pc = "parse"
    /\ ret = ""
    /\ name = <<>>
    /\ res = EmptyResult
    /\ a1 = None
    /\ err = NoError
    /\ out = None
    /\ round = 1
    /\ first = None
    /\ args = None
    /\ num = 0
    /\ enc = None
    /\ dec = None

NextParse ==
    \/ Parser_parse
    \/ parseQuotedName_open
    \/ parseQuotedName_loop
    \/ parseName_loop
    \/ parseSheetNameAndCell_sheet
    \/ parseSheetNameAndCell_cell1
    \/ parseSheetNameAndCell_cell2
    \/ Parser_parseCell_name
    \/ Parser_parseCell_cell1
    \/ Parser_parseCell_cell2
    \/ Parser_parseCell_range
    \/ A1Notation_parse
    \/ Format
    \/ Reparse

\* parse, format, parse again
SpecParse == InitParse /\ [][NextParse]_vars

-----------------------------------------------------------------------------
(* Construction from explicit arguments, then formatting. *)

SheetNameArgs ==
    {None, Some(<<>>), Some(<<"S","h","e","e","t","1">>), Some(<<"A","1">>), Some(<<"b">>),
     Some(<<"M","y"," ","S">>), Some(<<"A","'","b">>)}

NumberArgs == {None} \cup {Some(n) : n \in 0..MaxNum} \cup {Some(26), Some(27), Some(703)}

ConstructorArgs ==
    [sheetName : SheetNameArgs, left : NumberArgs, top : NumberArgs,
     right : NumberArgs, bottom : NumberArgs]

\* new A1Notation(args...): the constructor returns; it has no throw statement
Construct ==
    /\ pc = "new"
    /\ a1' = Some(A1Notation(args[1].sheetName, args[1].left, args[1].top,
                             args[1].right, args[1].bottom))
    /\ pc' = "returned"
    /\ UNCHANGED <<buf, index, ret, name, res, err, out, round, first, args, codecVars>>

InitNew ==
    /\ args \in {Some(a) : a \in ConstructorArgs}
    /\ pc = "new"
    /\ buf = <<>>
    /\ index = 0
    /\ ret = ""
    /\ name = <<>>
    /\ res = EmptyResult
    /\ a1 = None
    /\ err = NoError
    /\ out = None
    /\ round = 1
    /\ first = None
    /\ num = 0
    /\ enc = None
    /\ dec = None

NextNew ==
    \/ Construct
    \/ Format

\* construct, format
SpecNew == InitNew /\ [][NextNew]_vars

-----------------------------------------------------------------------------
(* The column codec on its own. *)

\* the column of "ZZZ", the last three-letter column
MaxColumn == 18278

Encode ==
    /\ pc = "codec"
    /\ enc' = Some(toBase26(num))
    /\ pc' = "encoded"
    /\ UNCHANGED <<buf, index, ret, name, res, a1, err, out, round, first, args, num, dec>>

Decode ==
    /\ pc = "encoded"
    /\ dec' = Some(fromBase26(enc[1]))
    /\ pc' = "decoded"
    /\ UNCHANGED <<buf, index, ret, name, res, a1, err, out, round, first, args, num, enc>>

InitCodec ==
    /\ num \in 1..MaxColumn
    /\ pc = "codec"
    /\ enc = None
    /\ dec = None
    /\ buf = <<>>
    /\ index = 0
    /\ ret = ""
    /\ name = <<>>
    /\ res = EmptyResult
    /\ a1 = None
    /\ err = NoError
    /\ out = None
    /\ round = 1
    /\ first = None
    /\ args = None

NextCodec ==
    \/ Encode
    \/ Decode

\* encode a column number, decode the letters
SpecCodec == InitCodec /\ [][NextCodec]_vars

-----------------------------------------------------------------------------
(* The same reference with its sheet name quoted, then bare. *)

\* the longest cell part that follows the sheet name
MaxCellLen == 4

\* non-empty names of ASCII letters and digits
PlainSheetNames == {<<"b">>, <<"A","1">>, <<"S","h","e","e","t","1">>}

CellParts == UNION {[1..k -> InputChars] : k \in 0..MaxCellLen}

\* a Parser on the text b, before parse() is called
ParserOn(b) ==
    /\ buf = b
    /\ index = 0
    /\ pc = "parse"
    /\ ret = ""
    /\ name = <<>>
    /\ res = EmptyResult
    /\ a1 = None
    /\ err = NoError
    /\ out = None
    /\ round = 1
    /\ first = None
    /\ args = None
    /\ num = 0
    /\ enc = None
    /\ dec = None

\* a second call of A1Notation.parse, on the text b, once the first call has
\* returned or thrown; first keeps what the first call returned (None: it threw)
ParseNext(b) ==
    /\ pc \in {"returned", "thrown"}
    /\ round = 1
    /\ round' = 2
    /\ first' = a1
    /\ buf' = b
    /\ index' = 0
    /\ pc' = "parse"
    /\ name' = <<>>
    /\ res' = EmptyResult
    /\ a1' = None
    /\ err' = NoError
    /\ UNCHANGED <<ret, out, args, codecVars>>

\* the text 'N'!c without the quotes around N
Unquoted(b) ==
    LET q == CHOOSE i \in 2..Len(b) : b[i] = "'" /\ \A j \in 2..(i - 1) : b[j] # "'"
    IN SubSeq(b, 2, q - 1) \o SubSeq(b, q + 1, Len(b))

\* A1Notation.parse("N!c") after A1Notation.parse("'N'!c")
ParseBare == ParseNext(Unquoted(buf))

InitQuotedBare ==
    \E N \in PlainSheetNames : \E c \in CellParts :
        ParserOn(<<"'">> \o N \o <<"'", "!">> \o c)

NextQuotedBare ==
    \/ Parser_parse
    \/ parseQuotedName_open
    \/ parseQuotedName_loop
    \/ parseName_loop
    \/ parseSheetNameAndCell_sheet
    \/ parseSheetNameAndCell_cell1
    \/ parseSheetNameAndCell_cell2
    \/ Parser_parseCell_name
    \/ Parser_parseCell_cell1
    \/ Parser_parseCell_cell2
    \/ A1Notation_parse
    \/ ParseBare

\* parse 'N'!c, then parse N!c
SpecQuotedBare == InitQuotedBare /\ [][NextQuotedBare]_vars

-----------------------------------------------------------------------------
(* Construction, formatting, then parsing the formatted text. *)

\* the longest sheet name given to the constructor here
MaxSheetLen == 3

SheetChars == InputChars \cup {" "}

ShortSheetNames == UNION {[1..k -> SheetChars] : k \in 1..MaxSheetLen}

LongSheetNames == {<<"Z","Z","Z","9">>, <<"a","1">>, <<"A","A","A","A","1">>, <<"S","h","e","e","t","1">>, <<"M","y"," ","C","u","s","t","o","m"," ","S","h","e","e","t">>}

\* new A1Notation(s) and new A1Notation(s, l, t) for every sheet name s
NamedArgs ==
    {[sheetName |-> Some(s), left |-> p[1], top |-> p[2], right |-> None, bottom |-> None] :
        s \in ShortSheetNames \cup LongSheetNames,
        p \in {<<None, None>>, <<Some(1), Some(1)>>, <<Some(27), Some(10)>>}}

\* every combination of absent and small bounds, under three sheet names
BoundedArgs ==
    [sheetName : {None, Some(<<"S","h","e","e","t","1">>), Some(<<"M","y"," ","S">>)},
     left : {None, Some(1), Some(2)}, top : {None, Some(1), Some(2)},
     right : {None, Some(1), Some(2)}, bottom : {None, Some(1), Some(2)}]

InitNewParse ==
    /\ args \in {Some(a) : a \in NamedArgs \cup BoundedArgs}
    /\ pc = "new"
    /\ buf = <<>>
    /\ index = 0
    /\ ret = ""
    /\ name = <<>>
    /\ res = EmptyResult
    /\ a1 = None
    /\ err = NoError
    /\ out = None
    /\ round = 1
    /\ first = None
    /\ num = 0
    /\ enc = None
    /\ dec = None

NextNewParse ==
    \/ Construct
    \/ Format
    \/ Reparse
    \/ Parser_parse
    \/ parseQuotedName_open
    \/ parseQuotedName_loop
    \/ parseName_loop
    \/ parseSheetNameAndCell_sheet
    \/ parseSheetNameAndCell_cell1
    \/ parseSheetNameAndCell_cell2
    \/ Parser_parseCell_name
    \/ Parser_parseCell_cell1
    \/ Parser_parseCell_cell2
    \/ Parser_parseCell_range
    \/ A1Notation_parse

\* construct, format, parse
SpecNewParse == InitNewParse /\ [][NextNewParse]_vars

-----------------------------------------------------------------------------
(* Parsing a text, then the same text with letters of its cell part in the
   other case. *)

\* the longest enumerated text whose case is changed
MaxCaseLen == 4

CaseInputs == UNION {[1..k -> InputChars] : k \in 0..MaxCaseLen} \cup AcceptedTestInputs

\* the other case of a letter
Flip(ch) ==
    IF ch \in Upper THEN LowerLetters[IndexOf(UpperLetters, ch)]
    ELSE UpperLetters[IndexOf(LowerLetters, ch)]

RECURSIVE LastIndexOf(_, _)
LastIndexOf(s, ch) ==
    IF s = <<>> THEN 0
    ELSE IF s[Len(s)] = ch THEN Len(s)
    ELSE LastIndexOf(SubSeq(s, 1, Len(s) - 1), ch)

\* where the cell part of the accepted text b begins, given the Range r that
\* parse returned for it; past the end when b has no cell part
CellPartStart(b, r) ==
    IF r.left = None /\ r.top = None /\ r.right = None /\ r.bottom = None
    THEN Len(b) + 1
    ELSE IF r.sheetName = None THEN 1
    ELSE LastIndexOf(b, "!") + 1

\* b with the letters at a non-empty set of cell-part positions in the other case
CaseVariants(b, r) ==
    LET letters == {i \in CellPartStart(b, r)..Len(b) : b[i] \in Letters}
    IN {[i \in 1..Len(b) |-> IF i \in S THEN Flip(b[i]) ELSE b[i]] : S \in SUBSET letters \ {{}}}

\* A1Notation.parse of a case variant of the text just accepted
ParseCaseVariant ==
    /\ pc = "returned"
    /\ \E y \in CaseVariants(buf, a1[1]) : ParseNext(y)

InitCase ==
    /\ buf \in CaseInputs
    /\ index = 0
    /\ pc = "parse"
    /\ ret = ""
    /\ name = <<>>
    /\ res = EmptyResult
    /\ a1 = None
    /\ err = NoError
    /\ out = None
    /\ round = 1
    /\ first = None
    /\ args = None
    /\ num = 0
    /\ enc = None
    /\ dec = None

NextCase ==
    \/ Parser_parse
    \/ parseQuotedName_open
    \/ parseQuotedName_loop
    \/ parseName_loop
    \/ parseSheetNameAndCell_sheet
    \/ parseSheetNameAndCell_cell1
    \/ parseSheetNameAndCell_cell2
    \/ Parser_parseCell_name
    \/ Parser_parseCell_cell1
    \/ Parser_parseCell_cell2
    \/ Parser_parseCell_range
    \/ A1Notation_parse
    \/ ParseCaseVariant

\* parse, then parse with the case changed
SpecCase == InitCase /\ [][NextCase]_vars

-----------------------------------------------------------------------------
(* What the properties below speak of. *)

\* a Range was returned to the caller
Returned == pc \in {"returned", "formatted"}

\* an Error was thrown to the caller
Thrown == pc = "thrown"

\* parseQuotedName's loop has read the end-of-input sentinel as a character
PastEnd == pc = "quotedLoop" /\ index > Len(buf)

\* every maximal run of single quotes in t has even length
EvenQuoteRuns(t) ==
    \A i \in 1..Len(t) : \A j \in i..Len(t) :
        ( /\ AllIn(SubSeq(t, i, j), {"'"})
          /\ (i = 1 \/ t[i - 1] # "'")
          /\ (j = Len(t) \/ t[j + 1] # "'") )
        => (j - i + 1) % 2 = 0

\* s opens a quoted name and ends before an unescaped closing quote
UnterminatedQuote(s) == Len(s) >= 1 /\ s[1] = "'" /\ EvenQuoteRuns(Tail(s))

\* the grammar of the notation, as a predicate on texts
IsName(x) == Len(x) >= 1 /\ AllIn(x, Alnum)

\* letters{0,3} digits+ when minDigits = 1, letters{0,3} digits* when 0
CellPattern(x, minDigits) ==
    \E k \in 0..3 :
        /\ k <= Len(x)
        /\ Len(x) - k >= minDigits
        /\ \A i \in 1..Len(x) : IF i <= k THEN x[i] \in Letters ELSE x[i] \in Digits

IsCellFragment(x) == Len(x) >= 1 /\ CellPattern(x, 0)

IsQuotedName(x) ==
    /\ Len(x) >= 3
    /\ x[1] = "'"
    /\ x[Len(x)] = "'"
    /\ EvenQuoteRuns(SubSeq(x, 2, Len(x) - 1))

IsCellRef(x) ==
    \/ IsCellFragment(x)
    \/ \E i \in 1..Len(x) :
        /\ x[i] = ":"
        /\ IsCellFragment(SubSeq(x, 1, i - 1))
        /\ IsCellFragment(SubSeq(x, i + 1, Len(x)))

InGrammar(s) ==
    \/ IsName(s)
    \/ IsQuotedName(s)
    \/ IsCellRef(s)
    \/ \E i \in 1..Len(s) :
        /\ s[i] = "!"
        /\ IsName(SubSeq(s, 1, i - 1)) \/ IsQuotedName(SubSeq(s, 1, i - 1))
        /\ IsCellRef(SubSeq(s, i + 1, Len(s)))

HasZero(a) == Some(0) \in {a.left, a.top, a.right, a.bottom}

-----------------------------------------------------------------------------
(* Lemmas that place the failures found below. *)

\* the round trip holds for every Range of parse that holds no zero bound
RoundTripWithoutZero ==
    (round = 2 /\ ~HasZero(first[1]))
        => /\ ~Thrown
           /\ ~PastEnd
           /\ (Returned => a1 = first)

\* every text outside the grammar whose quoted name is closed is rejected
\* without reading past the end
ClosedNonGrammarRejected ==
    (round = 1 /\ ~InGrammar(buf) /\ ~UnterminatedQuote(buf))
        => ~Returned /\ ~PastEnd

\* and every text of the grammar is accepted
GrammarAccepted ==
    (round = 1 /\ InGrammar(buf)) => ~Thrown /\ ~PastEnd

\* once the loop is past the end of the input it stays there
PastEndForever == [][PastEnd => PastEnd']_vars

\* the loop is past the end exactly on the unterminated quoted names
PastEndOnlyUnterminated ==
    (round = 1 /\ PastEnd) => UnterminatedQuote(buf)

-----------------------------------------------------------------------------
(* The properties. *)

\* C1: for every text on which parse returns a Range r, parse(r.format())
\* returns a Range too, equal to r in sheetName, left, top, right and bottom,
\* also when the row digits of the text are 0 or have leading zeros.
C1_RoundTrip ==
    round = 2 => /\ ~Thrown
                 /\ ~PastEnd
                 /\ (Returned => a1 = first)

\* C2: on a text that opens a quoted name and ends before an unescaped
\* closing quote, parse raises `invalid sheet name`: it returns no Range and
\* its loop stops at the end of the input.
C2_UnterminatedQuoteRaises ==
    (round = 1 /\ UnterminatedQuote(buf))
        => /\ ~PastEnd
           /\ ~Returned
           /\ (Thrown => err = "invalid sheet name")

\* C3: for every n in 1..18278, fromBase26(toBase26(n)) = n, and toBase26(n)
\* is 1 to 3 characters, each an uppercase letter A..Z.
C3_CodecInverse ==
    /\ pc \in {"encoded", "decoded"}
        => /\ Len(enc[1]) \in 1..3
           /\ \A i \in 1..Len(enc[1]) : enc[1][i] \in Upper
    /\ pc = "decoded" => dec = Some(num)

C3_Witness ==
    /\ pc = "decoded"
    /\ num = MaxColumn
    /\ enc = Some(<<"Z", "Z", "Z">>)
    /\ dec = Some(MaxColumn)

\* C4: a Range constructed with a sheet name s, a left column l >= 1 and a
\* top row t >= 1 and no right and bottom formats to
\* escape(s) "!" columnLetters(l) decimal(t).
C4_SingleCellFormat ==
    ( /\ pc = "formatted"
      /\ NonEmpty(args[1].sheetName)
      /\ args[1].left # None /\ args[1].left[1] >= 1
      /\ args[1].top # None /\ args[1].top[1] >= 1
      /\ args[1].right = None
      /\ args[1].bottom = None )
        => out = Some(escapeSheetName(args[1].sheetName[1]) \o <<"!">>
                      \o toBase26(args[1].left[1]) \o numberToString(args[1].top[1]))

C4_Witness ==
    /\ pc = "formatted"
    /\ args = Some([sheetName |-> Some(<<"S","h","e","e","t","1">>), left |-> Some(3), top |-> Some(2),
                    right |-> None, bottom |-> None])
    /\ out = Some(<<"S","h","e","e","t","1","!","C","2">>)

\* C5: with right and bottom both omitted the constructed Range has
\* right = left and bottom = top; with at least one of them supplied all four
\* bounds are stored as given, an omitted right or bottom staying absent.
C5_ConstructorDefaulting ==
    (Returned /\ args # None)
        => LET a == args[1]
               r == a1[1]
           IN /\ r.sheetName = a.sheetName
              /\ r.left = a.left
              /\ r.top = a.top
              /\ IF a.right = None /\ a.bottom = None
                 THEN r.right = a.left /\ r.bottom = a.top
                 ELSE r.right = a.right /\ r.bottom = a.bottom

C5_Witness ==
    /\ pc = "returned"
    /\ args # None
    /\ args[1].left = Some(2)
    /\ args[1].right = None
    /\ args[1].bottom = Some(3)
    /\ a1[1].right = None
    /\ a1[1].bottom = Some(3)

\* C6: the constructor raises an error whenever the sheet name is the empty
\* string or any of left, top, right, bottom is 0; no Range holding an empty
\* sheet name or a zero bound is ever constructed.
C6_EmptyOrZeroRejected ==
    ( /\ pc # "new"
      /\ args # None
      /\ \/ args[1].sheetName = Some(<<>>)
         \/ Some(0) \in {args[1].left, args[1].top, args[1].right, args[1].bottom} )
        => Thrown /\ a1 = None

\* C7: the constructor raises an error when right is supplied without left,
\* or bottom without top.
C7_OrphanRejected ==
    ( /\ pc # "new"
      /\ args # None
      /\ \/ args[1].right # None /\ args[1].left = None
         \/ args[1].bottom # None /\ args[1].top = None )
        => Thrown /\ a1 = None

\* C8: the constructor raises an error when left and right are both supplied
\* with right < left, and when top and bottom are both supplied with
\* bottom < top.
C8_InvertedRejected ==
    ( /\ pc # "new"
      /\ args # None
      /\ \/ args[1].left # None /\ args[1].right # None
            /\ args[1].right[1] < args[1].left[1]
         \/ args[1].top # None /\ args[1].bottom # None
            /\ args[1].bottom[1] < args[1].top[1] )
        => Thrown /\ a1 = None

\* C9: parse rejects every text that is not a complete notation of the
\* grammar: it raises an error and returns no Range.
C9_NonGrammarRejected ==
    (round = 1 /\ ~InGrammar(buf)) => ~Returned /\ ~PastEnd

AfterBang(b) ==
    LET i == CHOOSE k \in 1..Len(b) : b[k] = "!" /\ \A j \in 1..(k - 1) : b[j] # "!"
    IN SubSeq(b, i + 1, Len(b))

\* C11: for a non-empty alphanumeric name N and a cell part c, parse("'N'!c")
\* and parse("N!c") both fail or both return Ranges equal in all five fields;
\* when c is a single cell name both have right = left and bottom = top.
C11_QuotedBareEquivalent ==
    /\ round = 2 => /\ ~PastEnd
                    /\ (Thrown => first = None)
                    /\ (Returned => a1 = first)
    /\ (Returned /\ IsName(AfterBang(buf)))
         => a1[1].right = a1[1].left /\ a1[1].bottom = a1[1].top

C11_Witness ==
    /\ round = 2
    /\ pc = "returned"
    /\ buf = <<"S","h","e","e","t","1","!","A","1">>
    /\ first = a1
    /\ a1 = Some([sheetName |-> Some(<<"S","h","e","e","t","1">>), left |-> Some(1), top |-> Some(1),
                  right |-> Some(1), bottom |-> Some(1)])

\* the fields are those of the data model: bounds count from 1 and a sheet
\* name is not the empty string
ValidFields(r) == ~HasZero(r) /\ r.sheetName # Some(<<>>)

\* the text of a cell: the column letters, then the row in decimal
CellText(col, row) ==
    (IF col # None THEN toBase26(col[1]) ELSE <<>>)
    \o (IF row # None THEN numberToString(row[1]) ELSE <<>>)

\* the output for the cell portion `cell` of the Range r
WithSheetName(r, cell) ==
    IF r.sheetName = None THEN cell
    ELSE IF cell = <<>> THEN escapeSheetName(r.sheetName[1])
    ELSE escapeSheetName(r.sheetName[1]) \o <<"!">> \o cell

\* C12: the cell portion of format is cell1 alone when all four bounds are
\* present with left = right and top = bottom, and cell1 ":" cell2 when all
\* four are present and differ or when the bounds are partial and both cell
\* texts are non-empty; with a sheet name the output is the escaped name, "!"
\* and the cell portion, or the escaped name alone when there is no cell portion.
C12_CellPortion ==
    (pc = "formatted" /\ args # None /\ ValidFields(a1[1]))
        => LET r == a1[1]
               cell1 == CellText(r.left, r.top)
               cell2 == CellText(r.right, r.bottom)
               all4 == None \notin {r.left, r.top, r.right, r.bottom}
           IN /\ (all4 /\ r.left = r.right /\ r.top = r.bottom)
                    => out = Some(WithSheetName(r, cell1))
              /\ (all4 /\ ~(r.left = r.right /\ r.top = r.bottom))
                    => out = Some(WithSheetName(r, cell1 \o <<":">> \o cell2))
              /\ (~all4 /\ cell1 # <<>> /\ cell2 # <<>>)
                    => out = Some(WithSheetName(r, cell1 \o <<":">> \o cell2))
              /\ (cell1 = <<>> /\ cell2 = <<>>)
                    => out = Some(WithSheetName(r, <<>>))

C12_Witness ==
    /\ pc = "formatted"
    /\ a1 = Some([sheetName |-> Some(<<"S","h","e","e","t","1">>), left |-> Some(1), top |-> Some(3),
                  right |-> Some(1), bottom |-> None])
    /\ out = Some(<<"S","h","e","e","t","1","!","A","3",":","A">>)

\* C13: when exactly one of the two cell texts is non-empty, format renders
\* that text as the cell portion, whichever of cell1 or cell2 it is; a Range
\* with only right and/or bottom set formats to the text of cell2.
C13_NonEmptyCellRendered ==
    (pc = "formatted" /\ args # None /\ ValidFields(a1[1]))
        => LET r == a1[1]
               cell1 == CellText(r.left, r.top)
               cell2 == CellText(r.right, r.bottom)
           IN /\ (cell1 # <<>> /\ cell2 = <<>>) => out = Some(WithSheetName(r, cell1))
              /\ (cell1 = <<>> /\ cell2 # <<>>) => out = Some(WithSheetName(r, cell2))

NoBounds(r) == r.left = None /\ r.top = None /\ r.right = None /\ r.bottom = None

\* C14: format of a Range whose sheet name matches letters{0,3} digits+ and
\* that has no bounds wraps the name in single quotes, and parsing that text
\* returns a Range with exactly that sheet name and no bounds.
C14_CellLikeNameQuoted ==
    ( /\ args # None
      /\ NonEmpty(args[1].sheetName)
      /\ CellPattern(args[1].sheetName[1], 1)
      /\ NoBounds(args[1]) )
        => /\ (round = 1 /\ pc = "formatted")
                => out = Some(<<"'">> \o args[1].sheetName[1] \o <<"'">>)
           /\ round = 2
                => /\ ~Thrown
                   /\ ~PastEnd
                   /\ Returned => (a1[1].sheetName = args[1].sheetName /\ NoBounds(a1[1]))

C14_Witness ==
    /\ round = 2
    /\ pc = "returned"
    /\ args # None
    /\ args[1].sheetName = Some(<<"Z","Z","Z","9">>)
    /\ NoBounds(args[1])
    /\ buf = <<"'","Z","Z","Z","9","'">>
    /\ a1[1].sheetName = Some(<<"Z","Z","Z","9">>)
    /\ NoBounds(a1[1])

\* C15: no Range returned by a successful parse formats to the empty string.
C15_ParsedNeverFormatsEmpty ==
    (round = 1 /\ pc = "formatted" /\ args = None) => out # Some(<<>>)

\* q with each '' read as one '
RECURSIVE Undoubled(_)
Undoubled(q) ==
    IF q = <<>> THEN <<>>
    ELSE IF Len(q) >= 2 /\ q[1] = "'" /\ q[2] = "'"
    THEN <<"'">> \o Undoubled(SubSeq(q, 3, Len(q)))
    ELSE <<Head(q)>> \o Undoubled(Tail(q))

\* the sheet name s is the characters written in b: bare up to the `!` or the
\* end, or between the quotes with '' standing for '
WrittenSheetName(b, s) ==
    \/ b = s
    \/ \E k \in 1..Len(b) : b[k] = "!" /\ SubSeq(b, 1, k - 1) = s
    \/ \E k \in 2..Len(b) :
          /\ b[1] = "'"
          /\ b[k] = "'"
          /\ k = Len(b) \/ b[k + 1] = "!"
          /\ Undoubled(SubSeq(b, 2, k - 1)) = s

\* C16: changing the case of column letters in the cell part of an accepted
\* text yields the same left, top, right and bottom, and the returned sheet
\* name is exactly the characters written, never case-folded.
C16_CaseInsensitive ==
    /\ round = 2
         => /\ ~Thrown
            /\ ~PastEnd
            /\ Returned
                 => /\ a1[1].left = first[1].left
                    /\ a1[1].top = first[1].top
                    /\ a1[1].right = first[1].right
                    /\ a1[1].bottom = first[1].bottom
                    /\ a1[1].sheetName = first[1].sheetName
    /\ (Returned /\ a1[1].sheetName # None)
         => WrittenSheetName(buf, a1[1].sheetName[1])

C16_Witness ==
    /\ round = 2
    /\ pc = "returned"
    /\ buf = <<"S","h","e","e","t","1","!","a","1",":","b","2">>
    /\ first # None
    /\ first[1] = a1[1]
    /\ a1[1] = [sheetName |-> Some(<<"S","h","e","e","t","1">>), left |-> Some(1), top |-> Some(1),
                right |-> Some(2), bottom |-> Some(2)]

\* C17: in every state of a parse the cursor index never exceeds the length
\* of the input, next being invoked only while the cursor is before the end.
C17_CursorWithinInput == index <= Len(buf)

\* a present bound
Present(x) == x # None

\* C18: every Range returned by parse has no bound 0, column bounds within
\* 1..18278, right only with left, and bottom only with top.
C18_ParsedRangeValid ==
    (round = 1 /\ pc = "returned" /\ args = None)
        => LET r == a1[1]
           IN /\ \A x \in {r.left, r.top, r.right, r.bottom} : x # Some(0)
              /\ \A x \in {r.left, r.right} : Present(x) => (x[1] >= 1 /\ x[1] <= 18278)
              /\ Present(r.right) => Present(r.left)
              /\ Present(r.bottom) => Present(r.top)

QuoteCount(s) == Cardinality({i \in 1..Len(s) : s[i] = "'"})

\* the text of out up to and including the closing quote of its quoted name
QuotedPrefix(o, s) == SubSeq(o, 1, Min(Len(o), Len(s) + QuoteCount(s) + 2))

\* new A1Notation(s) or new A1Notation(s, l, t) with a non-empty s
SheetOrCellArgs(a) ==
    /\ NonEmpty(a.sheetName)
    /\ a.right = None
    /\ a.bottom = None
    /\ \/ a.left = None /\ a.top = None
       \/ Truthy(a.left) /\ Truthy(a.top)

\* C19: for every non-empty sheet name s, parsing the format of Range(s) and
\* of Range(s, l, t) returns a Range whose sheet name is exactly s with the
\* same bounds, and when the name is written quoted every ' of s is doubled.
C19_EscapingInverted ==
    (args # None /\ SheetOrCellArgs(args[1]))
        => LET s == args[1].sheetName[1]
           IN /\ (round = 1 /\ pc = "formatted" /\ out[1][1] = "'")
                   => /\ QuoteCount(QuotedPrefix(out[1], s)) = 2 * QuoteCount(s) + 2
                      /\ Len(out[1]) >= Len(s) + QuoteCount(s) + 2
              /\ round = 2
                   => /\ ~Thrown
                      /\ ~PastEnd
                      /\ Returned
                           => /\ a1[1].sheetName = Some(s)
                              /\ a1[1].left = args[1].left
                              /\ a1[1].top = args[1].top
                              /\ a1[1].right = args[1].left
                              /\ a1[1].bottom = args[1].top

C19_Witness ==
    /\ round = 2
    /\ pc = "returned"
    /\ args # None
    /\ args[1].sheetName = Some(<<"A","'","b">>)
    /\ args[1].left = Some(27)
    /\ args[1].top = Some(10)
    /\ buf = <<"'","A","'","'","b","'","!","A","A","1","0">>
    /\ a1[1] = [sheetName |-> Some(<<"A","'","b">>), left |-> Some(27), top |-> Some(10),
                right |-> Some(27), bottom |-> Some(10)]

====
